---- MODULE Spec2Model ----
(***************************************************************************)
(* The request pipeline of the FHIR client (src/src/Client.ts):            *)
(* Client.request, Client.refresh, Client._clearState and the reference     *)
(* resolver getRef / resolveRef / resolveRefs.                              *)
(*                                                                          *)
(* JavaScript runs one task at a time.  A transport response, a storage     *)
(* answer or the return of an onPage callback starts a task; the promise    *)
(* reactions it triggers run to completion before the next one is taken.    *)
(* The model keeps the pending reactions in the work list "run": the        *)
(* actions that stand for external events are enabled only when "run" is    *)
(* empty, the others consume its head.                                      *)
(***************************************************************************)
EXTENDS Integers, Sequences, FiniteSets, TLC

VARIABLES
    state,        \* Client.state: tokenUri, key, tokenResponse
    refreshTask,  \* Client._refreshTask: 0 (null) or the shared future
    exchs,        \* token exchanges issued so far (POSTs to tokenUri)
    storage,      \* the storage collaborator
    frames,       \* invocations of Client.request, in call order
    caches,       \* the _resolvedRefs objects, one per call without third argument
    srv,          \* what the server answers for a reference url, fixed at first use
    run,          \* promise reactions still to run in the current task
    callers,      \* direct calls of Client.refresh
    n401,         \* transport attempts answered 401 so far
    hadToken      \* whether tokenResponse ever held an access token

vars == <<state, refreshTask, exchs, storage, frames, caches, srv, run, callers,
          n401, hadToken>>

-----------------------------------------------------------------------------
(* Bounds of the exploration *)

MaxCalls == 2
MaxFrames == 7
MaxExchanges == 2
MaxPageLimit == 3
Max401 == 2

-----------------------------------------------------------------------------
(* JSON values served by the FHIR server *)

RefIds == {"P1", "P2", "P3"}

pA == <<"a">>
pB == <<"b">>
pC == <<"c">>
pEC == <<"e", "c">>
pAC == <<"a", "c">>
\* a path of ten segments
pDeep == <<"d", "d", "d", "d", "d", "d", "d", "d", "d", "d">>
Paths == {pA, pB, pC, pEC, pAC, pDeep}

NoNode == [t |-> "none", id |-> "", items |-> <<>>]
RefNode(id) == [t |-> "ref", id |-> id, items |-> <<>>]
ResNode(id) == [t |-> "res", id |-> id, items |-> <<>>]
ArrNode(items) == [t |-> "arr", id |-> "", items |-> items]

NoNodes == [p \in Paths |-> NoNode]

Resource(url, nodes) == [t |-> "res", url |-> url, nodes |-> nodes]
Bundle(url, entry, next) == [t |-> "bundle", url |-> url, entry |-> entry, next |-> next]
RawBody == [t |-> "raw"]
NullValue == [t |-> "null"]
ArrayOf(items) == [t |-> "arr", items |-> items]
Pair(data, c) == [t |-> "pair", data |-> data, references |-> c]

\* The resources of the server.  R1 is a single resource, B1 -> B2 -> B3 a
\* chain of Bundle pages, T a text body, P1, P2 and P3 the referenced
\* resources (P1 references P3 in its field c).
TopUrls == {"R1", "B1", "B2", "B3", "L", "T"}

DB(url) ==
    CASE url = "R1" ->
           Resource("R1", [NoNodes EXCEPT ![pA] = RefNode("P1"),
                                          ![pB] = ArrNode(<<RefNode("P1"), RefNode("P2")>>),
                                          ![pEC] = RefNode("P1"),
                                          ![pDeep] = RefNode("P2")])
      [] url = "B1" ->
           Bundle("B1",
                  <<Resource("E1", [NoNodes EXCEPT ![pA] = RefNode("P1")]),
                    Resource("E2", [NoNodes EXCEPT ![pA] = RefNode("P1"),
                                                   ![pEC] = RefNode("P2")])>>,
                  "B2")
      [] url = "B2" ->
           Bundle("B2",
                  <<Resource("E3", [NoNodes EXCEPT ![pA] = RefNode("P1")])>>,
                  "B3")
      [] url = "B3" -> Bundle("B3", <<Resource("E4", NoNodes)>>, "")
      [] url = "L" -> Bundle("L", <<Resource("E5", NoNodes)>>, "L")
      [] url = "T" -> RawBody
      [] url = "P1" -> Resource("P1", [NoNodes EXCEPT ![pC] = RefNode("P3")])
      [] url = "P2" -> Resource("P2", NoNodes)
      [] url = "P3" -> Resource("P3", NoNodes)

\* The chain that starts at url comes back to a page it has passed
Cyclic(url) == url = "L"

\* Number of pages of the chain that starts at url, when the chain ends
RECURSIVE ChainLen(_)
ChainLen(url) ==
    IF url = "" \/ DB(url).t # "bundle" THEN 0 ELSE 1 + ChainLen(DB(url).next)

-----------------------------------------------------------------------------
(* lib helpers used by Client.ts *)

\* lib.makeArray
makeArray(x) == IF x.t = "arr" THEN x ELSE ArrayOf(<<x>>)

\* lib.getPath of a resource at a dot-path (already split in segments)
getPath(obj, path) ==
    IF obj.t = "res" /\ path \in Paths THEN obj.nodes[path] ELSE NoNode

IsProperPrefix(p, q) == Len(p) < Len(q) /\ SubSeq(q, 1, Len(p)) = p

\* lib.setPath(obj, path, sub): the node at path becomes the fetched value,
\* whose own fields become reachable below it
setPath(obj, path, sub) ==
    [obj EXCEPT !.nodes =
        [q \in Paths |->
            IF q = path THEN ResNode(sub.url)
            ELSE IF IsProperPrefix(path, q)
                 THEN getPath(sub, SubSeq(q, Len(path) + 1, Len(q)))
                 ELSE obj.nodes[q]]]

\* lib.setPath(obj, `${path}.${i}`, sub): element i of the array at path
setPathIndex(obj, path, i, sub) ==
    [obj EXCEPT !.nodes[path].items[i] = ResNode(sub.url)]

-----------------------------------------------------------------------------
(* Session state *)

NoTokens == [access_token |-> 0, refresh_token |-> 0, scope |-> {}]

\* Client.getAuthorizationHeader
getAuthorizationHeader ==
    IF state.tokenResponse.access_token # 0
    THEN [scheme |-> "Bearer", token |-> state.tokenResponse.access_token]
    ELSE IF state.username /\ state.password
         THEN [scheme |-> "Basic", token |-> 0]
         ELSE [scheme |-> "none", token |-> 0]

NoErr == [kind |-> "none", status |-> 0]
HttpError(status) == [kind |-> "http", status |-> status]
Error(kind) == [kind |-> kind, status |-> 0]

-----------------------------------------------------------------------------
(* FhirOptions and the options object of Client.request *)

NoSignal == 0

\* The caller's fhirOptions: "given" names the fields that are present
FhirOptions(given, graph, flat, pageLimit, paths, useRefreshToken, onPage) ==
    [given |-> given, graph |-> graph, flat |-> flat, pageLimit |-> pageLimit,
     resolveReferences |-> paths, useRefreshToken |-> useRefreshToken,
     onPage |-> onPage]

\* client.request({url: refId, signal}): no fhirOptions at all
EmptyFhirOptions == FhirOptions({}, TRUE, FALSE, 1, <<>>, TRUE, FALSE)

\* const options = {...}
Options(fo) ==
    [graph |-> IF "graph" \in fo.given THEN fo.graph # FALSE ELSE TRUE,
     flat |-> IF "flat" \in fo.given THEN fo.flat ELSE FALSE,
     pageLimit |-> IF "pageLimit" \in fo.given THEN fo.pageLimit ELSE 1,
     resolveReferences |->
         IF "resolveReferences" \in fo.given THEN fo.resolveReferences ELSE <<>>,
     useRefreshToken |->
         IF "useRefreshToken" \in fo.given THEN fo.useRefreshToken # FALSE ELSE TRUE,
     onPage |-> IF "onPage" \in fo.given THEN fo.onPage ELSE FALSE]

\* The options object handed on as the fhirOptions of a recursive call
AsFhirOptions(o) ==
    FhirOptions({"graph", "flat", "pageLimit", "resolveReferences",
                 "useRefreshToken", "onPage"},
                o.graph, o.flat, o.pageLimit, o.resolveReferences,
                o.useRefreshToken, o.onPage)

-----------------------------------------------------------------------------
(* resolveRefs: path sanitization and depth groups *)

\* String(path).trim(): a path as the caller writes it is a sequence of
\* segments, with " " for white space before and after
RECURSIVE TrimStart(_)
TrimStart(p) == IF p # <<>> /\ Head(p) = " " THEN TrimStart(Tail(p)) ELSE p

RECURSIVE TrimEnd(_)
TrimEnd(p) ==
    IF p # <<>> /\ p[Len(p)] = " " THEN TrimEnd(SubSeq(p, 1, Len(p) - 1)) ELSE p

Trim(p) == TrimEnd(TrimStart(p))

\* step 1: no empty entries, trimmed, no blank entries
CleanPaths(paths) ==
    LET given == SelectSeq(paths, LAMBDA p : p # <<>>)
        trimmed == [i \in 1..Len(given) |-> Trim(given[i])]
    IN  SelectSeq(trimmed, LAMBDA p : p # <<>>)

\* A step 2 that drops every path that has occurred before
SanitizeFirstWins(paths) ==
    LET nonEmpty == CleanPaths(paths)
        keep(i) == \A j \in 1..(i - 1) : nonEmpty[j] # nonEmpty[i]
        idx == {i \in 1..Len(nonEmpty) : keep(i)}
        RECURSIVE pick(_)
        pick(i) == IF i > Len(nonEmpty) THEN <<>>
                   ELSE IF i \in idx THEN <<nonEmpty[i]>> \o pick(i + 1)
                   ELSE pick(i + 1)
    IN pick(1)

\* steps 1 and 2: drop empty paths, then every path that occurs again later
SanitizePaths(paths) ==
    LET nonEmpty == CleanPaths(paths)
        keep(i) == \A j \in (i + 1)..Len(nonEmpty) : nonEmpty[j] # nonEmpty[i]
        idx == {i \in 1..Len(nonEmpty) : keep(i)}
        RECURSIVE pick(_)
        pick(i) == IF i > Len(nonEmpty) THEN <<>>
                   ELSE IF i \in idx THEN <<nonEmpty[i]>> \o pick(i + 1)
                   ELSE pick(i + 1)
    IN pick(1)

\* the decimal digits of a group key
Digits(n) == IF n < 10 THEN <<n>> ELSE <<n \div 10, n % 10>>

\* string order of two group keys, as Array.prototype.sort() compares them
KeyBefore(m, n) ==
    LET a == Digits(m)
        b == Digits(n)
    IN  \/ a[1] < b[1]
        \/ a[1] = b[1] /\ Len(a) < Len(b)
        \/ a[1] = b[1] /\ Len(a) = Len(b) /\ Len(a) = 2 /\ a[2] < b[2]

\* Object.keys(groups).sort()
RECURSIVE SortKeys(_)
SortKeys(ks) ==
    IF ks = {} THEN <<>>
    ELSE LET k == CHOOSE x \in ks : \A y \in ks \ {x} : KeyBefore(x, y)
         IN  <<k>> \o SortKeys(ks \ {k})

GroupKeys(paths) == SortKeys({Len(paths[i]) : i \in 1..Len(paths)})

\* groups[len]
Group(paths, len) == SelectSeq(paths, LAMBDA p : Len(p) = len)

\* The references resolveRef looks up for one path: [p, i, id], i = 0 when
\* the node is no array
PathLookups(obj, path) ==
    LET node == getPath(obj, path)
        RECURSIVE items(_)
        items(i) ==
            IF i > Len(node.items) THEN <<>>
            ELSE (IF node.items[i].t = "ref"
                  THEN <<[p |-> path, i |-> i, id |-> node.items[i].id]>>
                  ELSE <<>>) \o items(i + 1)
    IN  CASE node.t = "ref" -> <<[p |-> path, i |-> 0, id |-> node.id]>>
          [] node.t = "arr" -> items(1)
          [] OTHER -> <<>>

RECURSIVE GroupLookups(_, _)
GroupLookups(obj, group) ==
    IF group = <<>> THEN <<>>
    ELSE PathLookups(obj, Head(group)) \o GroupLookups(obj, Tail(group))

-----------------------------------------------------------------------------
(* Invocations of Client.request *)

\* Work items of the current task
Work(op, f) == [op |-> op, f |-> f, e |-> 0, p |-> <<>>, i |-> 0, id |-> "", src |-> 0]
ItemWork(op, f, e, l, src) ==
    [op |-> op, f |-> f, e |-> e, p |-> l.p, i |-> l.i, id |-> l.id, src |-> src]

NoCache == [id \in RefIds |-> [t |-> "absent", f |-> 0]]

\* An invocation that reuses the headers of the invocation that called it
NewFrameOldHeaders(kind, parent, top, url, fo, c, sig) ==
    [kind |-> kind, parent |-> parent, top |-> top, url |-> url,
     fo |-> fo, o |-> Options(fo), c |-> c, sig |-> sig,
     auth |-> IF parent = 0 THEN getAuthorizationHeader ELSE frames[parent].auth,
     pc |-> "fetch", data |-> NullValue, next |-> "", err |-> NoErr,
     fut |-> 0, tasks |-> <<>>, wait |-> <<>>, calls |-> <<>>]

\* Client.request up to the transport call: the url, the Authorization
\* header taken from the state of this moment, the options object, the signal
NewFrame(kind, parent, top, url, fo, c, sig) ==
    [kind |-> kind, parent |-> parent, top |-> top, url |-> url,
     fo |-> fo, o |-> Options(fo), c |-> c, sig |-> sig,
     auth |-> getAuthorizationHeader,
     pc |-> "fetch", data |-> NullValue, next |-> "", err |-> NoErr,
     fut |-> 0, tasks |-> <<>>, wait |-> <<>>, calls |-> <<>>]

Settled(fr) == fr.pc \in {"done", "failed"}

Fail(fr, err) == [fr EXCEPT !.pc = "failed", !.err = err]

\* What a settled invocation leaves for whoever awaits it
Notify(f, fr) == IF Settled(fr) THEN <<Work("settled", f)>> ELSE <<>>

\* Handlers that take every failure for an expired session
RouteAsExpired(fr, err) ==
    IF state.tokenResponse.access_token = 0
    THEN Fail(fr, Error("notLaunched"))
    ELSE [fr EXCEPT !.pc = "clearGet"]

\* Handlers that clear the session on 403 as they do on 401
RouteDeniedAsExpired(fr, err) ==
    IF err.status \in {401, 403}
    THEN IF state.tokenResponse.access_token = 0
         THEN Fail(fr, Error("notLaunched"))
         ELSE [fr EXCEPT !.pc = "clearGet"]
    ELSE Fail(fr, err)

\* The two handlers behind the refresh handler: terminal 401 (lines 783-806)
\* and 403 (lines 809-814).  A 401 of a client without access token is "not
\* launched"; otherwise _clearState is entered and waits for storage.get.
RouteError(fr, err) ==
    IF err.status = 401
    THEN IF state.tokenResponse.access_token = 0
         THEN Fail(fr, Error("notLaunched"))
         ELSE [fr EXCEPT !.pc = "clearGet"]
    ELSE Fail(fr, err)

NEntries(data) == IF data.t = "bundle" THEN Len(data.entry) ELSE 1

\* .then(data => ...), lines 816-849: raw bodies pass, everything else goes
\* to resolveRefs, one call per Bundle entry
OnData(fr, data) ==
    IF data.t \in {"raw", "null"}
    THEN [fr EXCEPT !.pc = "done", !.data = data]
    ELSE [fr EXCEPT !.pc = "resolve", !.data = data,
                    !.tasks = [e \in 1..NEntries(data) |->
                                  [g |-> 0, pend |-> 0, st |-> "run"]]]

OnDataWork(f, fr) ==
    IF fr.pc = "done" THEN <<Work("settled", f)>>
    ELSE IF Len(fr.tasks) = 0 THEN <<Work("paginate", f)>>
    ELSE [e \in 1..Len(fr.tasks) |-> [Work("advance", f) EXCEPT !.e = e]]

\* A last step that hands the data on as it is
FinalizeBare(fr, data) == [fr EXCEPT !.pc = "done", !.data = data]

\* Finalize, lines 900-911
Finalize(fr, data) ==
    [fr EXCEPT !.pc = "done",
               !.data = IF fr.o.graph THEN data
                        ELSE IF ~fr.o.onPage /\ Len(fr.o.resolveReferences) # 0
                             THEN Pair(data, fr.c)
                             ELSE data]

-----------------------------------------------------------------------------
(* Client.refresh *)

\* The three checks with tokenUri looked at first
TokenUriFirst ==
    IF ~state.tokenUri THEN "noTokenUri"
    ELSE IF state.tokenResponse.refresh_token = 0 THEN "noRefreshToken"
    ELSE IF state.tokenResponse.scope \cap {"offline_access", "online_access"} = {}
         THEN "noScope"
         ELSE "ok"

\* The three synchronous checks, lines 933-946
RefreshPrecondition ==
    IF state.tokenResponse.refresh_token = 0 THEN "noRefreshToken"
    ELSE IF ~state.tokenUri THEN "noTokenUri"
    ELSE IF state.tokenResponse.scope \cap {"offline_access", "online_access"} = {}
         THEN "noScope"
         ELSE "ok"

\* A slot test that never finds a refresh in flight
SlotAlwaysEmpty == TRUE

\* if (!this._refreshTask), line 952
SlotEmpty == refreshTask = 0

\* Whether a call of refresh() now would POST to tokenUri
WouldStartExchange == RefreshPrecondition = "ok" /\ SlotEmpty

\* A POST that leaves the caller's request options out
NewExchangeBare(sig) ==
    [rt |-> state.tokenResponse.refresh_token, sig |-> NoSignal, st |-> "flight",
     err |-> NoErr]

\* request(tokenUri, { ...requestOptions, ... }), lines 953-963
NewExchange(sig) ==
    [rt |-> state.tokenResponse.refresh_token, sig |-> sig, st |-> "flight",
     err |-> NoErr]

\* A refresh() that POSTs whether or not the slot is taken
ExchsAlwaysNew(sig) ==
    IF RefreshPrecondition = "ok" THEN Append(exchs, NewExchange(sig)) ELSE exchs

\* The slot and the exchanges after a call of refresh()
ExchsAfterRefresh(sig) ==
    IF WouldStartExchange THEN Append(exchs, NewExchange(sig)) ELSE exchs

\* A refresh that does not keep the future of the exchange it starts
TaskNotKept == refreshTask

\* this._refreshTask after the call, lines 952-989
TaskAfterRefresh ==
    IF WouldStartExchange THEN Len(exchs) + 1 ELSE refreshTask

\* The responses of the token endpoint
TokenOutcomes == {"ok", "okRotate", "noAccessToken", "http400", "http401"}

TokenError(oc) ==
    CASE oc = "noAccessToken" -> Error("noAccessToken")
      [] oc = "http400" -> HttpError(400)
      [] oc = "http401" -> HttpError(401)
      [] OTHER -> NoErr

\* A merge that takes the access token only
MergeAccessToken(tr, x, oc) == [tr EXCEPT !.access_token = x + 1]

\* Object.assign(this.state.tokenResponse, data), line 970
MergeTokens(tr, x, oc) ==
    [tr EXCEPT !.access_token = x + 1,
               !.refresh_token = IF oc = "okRotate" THEN x + 1 ELSE @]

\* A catch handler that leaves the token response alone
KeepRefreshToken(tr) == tr

\* the catch handler, lines 972-977
DropRefreshToken(tr) == [tr EXCEPT !.refresh_token = 0]

\* tokenResponse when exchange x has settled with outcome oc
TokensAfterExchange(tr, x, oc) ==
    IF oc \in {"ok", "okRotate"} THEN MergeTokens(tr, x, oc) ELSE DropRefreshToken(tr)

\* the finally handler's storage.set(key, this.state), lines 980-985
StorageAfterExchange(tr) ==
    IF state.key THEN [storage EXCEPT !.session = [present |-> TRUE, tokenResponse |-> tr]]
    ELSE storage

-----------------------------------------------------------------------------
(* Initial states: a client constructed from a session state *)

Session(tokenUri, key, basic, at, rt, scope) ==
    [tokenUri |-> tokenUri, key |-> key, username |-> basic, password |-> basic,
     tokenResponse |-> [access_token |-> at, refresh_token |-> rt, scope |-> scope]]

Sessions ==
    {Session(TRUE, TRUE, FALSE, 1, 1, {"launch", "offline_access"}),
     Session(TRUE, FALSE, FALSE, 1, 1, {"online_access"}),
     Session(TRUE, TRUE, FALSE, 1, 0, {"launch", "offline_access"}),
     Session(FALSE, TRUE, FALSE, 1, 1, {"launch"}),
     Session(TRUE, TRUE, FALSE, 1, 1, {"launch"}),
     Session(FALSE, FALSE, FALSE, 0, 0, {}),
     Session(FALSE, FALSE, TRUE, 0, 0, {})}

\* The session of an app launched with offline access
FullSession == Session(TRUE, TRUE, FALSE, 1, 1, {"launch", "offline_access"})

Init ==
    /\ state \in Sessions
    /\ refreshTask = 0
    /\ exchs = <<>>
    /\ storage = [smartKey |-> state.key,
                  session |-> [present |-> state.key,
                               tokenResponse |-> IF state.key THEN state.tokenResponse
                                                 ELSE NoTokens]]
    /\ frames = <<>>
    /\ caches = [c \in 1..MaxFrames |-> NoCache]
    /\ srv = [id \in RefIds |-> 0]
    /\ run = <<>>
    /\ callers = <<>>
    /\ n401 = 0
    /\ hadToken = (state.tokenResponse.access_token # 0)

-----------------------------------------------------------------------------
(* Calls made by the application *)

PathLists ==
    {<<pA>>, <<pB>>, <<pA, pB>>, <<pA, pEC>>, <<pA, pAC>>, <<pA, pB, pAC>>,
     <<pEC, pDeep>>,
     <<<<" ", "a">>, <<>>, <<" ">>, pB, <<"a", " ">>>>}

\* The fhirOptions the application passes: a field is either left out or
\* given a value other than its default
GivenFields(graph, flat, pageLimit, paths, useRefreshToken, onPage) ==
    (IF graph THEN {} ELSE {"graph"})
    \cup (IF flat THEN {"flat"} ELSE {})
    \cup (IF pageLimit = 1 THEN {} ELSE {"pageLimit"})
    \cup (IF paths = <<>> THEN {} ELSE {"resolveReferences"})
    \cup (IF useRefreshToken THEN {} ELSE {"useRefreshToken"})
    \cup (IF onPage THEN {"onPage"} ELSE {})

TopFhirOptions ==
    {FhirOptions(GivenFields(g, fl, pl, rr, u, op), g, fl, pl, rr, u, op) :
        g \in BOOLEAN, fl \in BOOLEAN, pl \in 0..MaxPageLimit,
        rr \in PathLists \cup {<<>>}, u \in BOOLEAN, op \in BOOLEAN}

TopFrames == {f \in 1..Len(frames) : frames[f].kind = "top"}

\* A request of one resource with no reference paths, page limit or callback
PlainFrame(fr) ==
    /\ fr.url = "R1"
    /\ fr.o.resolveReferences = <<>>
    /\ fr.o.graph /\ ~fr.o.flat /\ ~fr.o.onPage /\ fr.o.pageLimit \in {0, 1}

\* client.request(url, fhirOptions)
Request(url, fo, sig) ==
    /\ run = <<>>
    /\ Len(frames) < MaxFrames
    /\ frames' = Append(frames, NewFrame("top", 0, Len(frames) + 1, url, fo,
                                         Len(frames) + 1, sig))
    /\ UNCHANGED <<state, refreshTask, exchs, storage, caches, srv, run, callers,
                   n401, hadToken>>

\* The application requests one resource, with or without automatic
\* refresh, while other such requests and refresh() calls are under way
PlainRequest ==
    /\ Cardinality(TopFrames) + Len(callers) < MaxCalls
    /\ \E u \in BOOLEAN :
          Request("R1", FhirOptions(GivenFields(TRUE, FALSE, 1, <<>>, u, FALSE),
                                    TRUE, FALSE, 1, <<>>, u, FALSE), NoSignal)

\* The application makes one request with reference paths, pages, flat,
\* graph and onPage as it likes
ResourceRequest ==
    /\ frames = <<>>
    /\ \E url \in TopUrls, fo \in TopFhirOptions :
          /\ "useRefreshToken" \notin fo.given
          /\ DB(url).t # "bundle" => {"flat", "pageLimit"} \cap fo.given = {}
          /\ Request(url, fo, NoSignal)

\* The AbortSignal objects the application passes in requestOptions.signal
Signals == {1, 2}

SignalFhirOptions ==
    {FhirOptions(GivenFields(TRUE, FALSE, pl, rr, TRUE, op), TRUE, FALSE, pl, rr, TRUE, op) :
        pl \in 1..MaxPageLimit, rr \in {<<>>, <<pA>>, <<pA, pB>>}, op \in BOOLEAN}

\* The application passes { url, signal }: one request with references and
\* pages, or several requests of one resource side by side.  The first
\* request carries signal 1, the later ones another signal or none
SignalRequest ==
    \/ /\ frames = <<>>
       /\ \E url \in TopUrls, fo \in SignalFhirOptions :
             /\ DB(url).t # "bundle" => {"flat", "pageLimit"} \cap fo.given = {}
             /\ Request(url, fo, 1)
    \/ /\ frames # <<>>
       /\ Cardinality(TopFrames) < MaxCalls
       /\ \A t \in TopFrames : PlainFrame(frames[t])
       /\ \E sig \in (Signals \ {1}) \cup {NoSignal} :
             Request("R1", FhirOptions({}, TRUE, FALSE, 1, <<>>, TRUE, FALSE), sig)

SettledExchanges == {x \in 1..Len(exchs) : exchs[x].st # "flight"}

\* A direct call of client.refresh()
Refresh ==
    /\ run = <<>>
    /\ Cardinality(TopFrames) + Len(callers) < MaxCalls
    /\ WouldStartExchange => Len(exchs) < MaxExchanges
    /\ callers' = Append(callers,
            [fut |-> IF RefreshPrecondition = "ok" THEN TaskAfterRefresh ELSE 0,
             st |-> IF RefreshPrecondition = "ok" THEN "wait" ELSE "threw",
             err |-> IF RefreshPrecondition = "ok" THEN NoErr
                     ELSE Error(RefreshPrecondition),
             seen |-> NoTokens,
             epoch |-> Cardinality(SettledExchanges)])
    /\ exchs' = ExchsAfterRefresh(NoSignal)
    /\ refreshTask' = TaskAfterRefresh
    /\ UNCHANGED <<state, storage, frames, caches, srv, run, n401, hadToken>>

-----------------------------------------------------------------------------
(* Transport responses *)

\* The rejection of a transport call whose signal was triggered: it carries
\* no status
AbortError == [kind |-> "abort", status |-> 0]

\* An AbortSignal is an object its holders share: a signal that was
\* triggered is held as the negative of its name by every invocation and
\* exchange that carries it
Triggered(sig) == IF sig > 0 THEN 0 - sig ELSE sig
Aborted(sig) == sig < 0

Fetching(f) ==
    f \in 1..Len(frames) /\ frames[f].pc = "fetch" /\ ~Aborted(frames[f].sig)

\* 200 with the body of the url
RespondOk(f) ==
    /\ run = <<>>
    /\ Fetching(f)
    /\ frames[f].url \in RefIds => srv[frames[f].url] \in {0, 200}
    /\ LET fr == OnData(frames[f], DB(frames[f].url))
       IN  /\ frames' = [frames EXCEPT ![f] = fr]
           /\ run' = OnDataWork(f, fr)
    /\ srv' = IF frames[f].url \in RefIds THEN [srv EXCEPT ![frames[f].url] = 200]
              ELSE srv
    /\ UNCHANGED <<state, refreshTask, exchs, storage, caches, callers, n401,
                   hadToken>>

\* 404 or 500 for a reference url, 403 for any other: none of the handlers
\* of lines 767-814 changes the error
RespondError(f, status) ==
    /\ run = <<>>
    /\ Fetching(f)
    /\ IF frames[f].url \in RefIds
       THEN status \in {404, 500} /\ srv[frames[f].url] \in {0, status}
       ELSE status = 403
    /\ LET fr == RouteError(frames[f], HttpError(status))
       IN  /\ frames' = [frames EXCEPT ![f] = fr]
           /\ run' = Notify(f, fr)
    /\ srv' = IF frames[f].url \in RefIds THEN [srv EXCEPT ![frames[f].url] = status]
              ELSE srv
    /\ UNCHANGED <<state, refreshTask, exchs, storage, caches, callers, n401, hadToken>>

\* if (error.status == 401 && options.useRefreshToken) and hasRefreshToken,
\* lines 769-771
RefreshesOn401(fr) ==
    fr.o.useRefreshToken /\ state.tokenResponse.refresh_token # 0

\* The attempts the server may answer with 401: any when all requests are
\* plain, else one attempt for the resource or a page
MayAnswer401(f) ==
    IF \A t \in TopFrames : PlainFrame(frames[t]) THEN n401 < Max401
    ELSE n401 = 0 /\ frames[f].kind \in {"top", "page"}

\* 401: the refresh handler of lines 767-780, then the terminal handler
Respond401(f) ==
    /\ run = <<>>
    /\ Fetching(f)
    /\ MayAnswer401(f)
    /\ n401' = n401 + 1
    /\ IF RefreshesOn401(frames[f])
       THEN IF RefreshPrecondition = "ok"
            THEN /\ WouldStartExchange => Len(exchs) < MaxExchanges
                 /\ exchs' = ExchsAfterRefresh(frames[f].sig)
                 /\ refreshTask' = TaskAfterRefresh
                 /\ frames' = [frames EXCEPT ![f].pc = "refreshWait",
                                             ![f].fut = TaskAfterRefresh]
                 /\ run' = <<>>
            ELSE LET fr == RouteError(frames[f], Error(RefreshPrecondition))
                 IN  /\ frames' = [frames EXCEPT ![f] = fr]
                     /\ run' = Notify(f, fr)
                     /\ UNCHANGED <<exchs, refreshTask>>
       ELSE LET fr == RouteError(frames[f], HttpError(401))
            IN  /\ frames' = [frames EXCEPT ![f] = fr]
                /\ run' = Notify(f, fr)
                /\ UNCHANGED <<exchs, refreshTask>>
    /\ UNCHANGED <<state, storage, caches, srv, callers, hadToken>>

\* The frames that await future x, in call order
RECURSIVE Awaiting(_, _)
Awaiting(x, f) ==
    IF f > Len(frames) THEN <<>>
    ELSE (IF frames[f].pc = "refreshWait" /\ frames[f].fut = x
          THEN <<[Work("refreshed", f) EXCEPT !.src = x]>>
          ELSE <<>>) \o Awaiting(x, f + 1)

\* The token endpoint answers exchange x: lines 963-986 run, then the
\* reactions of everyone who holds the future
TokenRespond(x, oc) ==
    /\ run = <<>>
    /\ x \in 1..Len(exchs)
    /\ exchs[x].st = "flight"
    /\ LET tr == TokensAfterExchange(state.tokenResponse, x, oc)
           ok == oc \in {"ok", "okRotate"}
       IN  /\ state' = [state EXCEPT !.tokenResponse = tr]
           /\ hadToken' = (hadToken \/ tr.access_token # 0)
           /\ storage' = StorageAfterExchange(tr)
           /\ exchs' = [exchs EXCEPT ![x].st = IF ok THEN "ok" ELSE "failed",
                                     ![x].err = TokenError(oc)]
           /\ callers' = [k \in 1..Len(callers) |->
                            IF callers[k].st = "wait" /\ callers[k].fut = x
                            THEN [callers[k] EXCEPT !.st = IF ok THEN "ok" ELSE "failed",
                                                    !.err = TokenError(oc),
                                                    !.seen = tr]
                            ELSE callers[k]]
    /\ refreshTask' = 0
    /\ run' = Awaiting(x, 1)
    /\ UNCHANGED <<frames, caches, srv, n401>>

\* .then(() => this.request(...)) of line 772, or the rejection of the
\* refresh reaching the terminal handler
AfterRefresh ==
    /\ run # <<>>
    /\ Head(run).op = "refreshed"
    /\ LET f == Head(run).f
           x == Head(run).src
       IN  IF exchs[x].st = "ok"
           THEN /\ Len(frames) < MaxFrames
                /\ frames' = Append([frames EXCEPT ![f].pc = "retryWait"],
                                    NewFrame("retry", f, frames[f].top, frames[f].url,
                                             AsFhirOptions(frames[f].o), frames[f].c,
                                             frames[f].sig))
                /\ run' = Tail(run)
           ELSE LET fr == RouteError(frames[f], exchs[x].err)
                IN  /\ frames' = [frames EXCEPT ![f] = fr]
                    /\ run' = Tail(run) \o Notify(f, fr)
    /\ UNCHANGED <<state, refreshTask, exchs, storage, caches, srv, callers, n401,
                   hadToken>>

\* _clearState, lines 625-633: one step per storage answer
ClearStep(f) ==
    /\ run = <<>>
    /\ f \in 1..Len(frames)
    /\ frames[f].pc \in {"clearGet", "clearUnsetKey", "clearUnsetSmart"}
    /\ CASE frames[f].pc = "clearGet" /\ storage.smartKey ->
              /\ storage' = [storage EXCEPT !.session = [present |-> FALSE,
                                                         tokenResponse |-> NoTokens]]
              /\ frames' = [frames EXCEPT ![f].pc = "clearUnsetKey"]
              /\ UNCHANGED <<state, run>>
         [] frames[f].pc = "clearGet" /\ ~storage.smartKey ->
              /\ storage' = [storage EXCEPT !.smartKey = FALSE]
              /\ frames' = [frames EXCEPT ![f].pc = "clearUnsetSmart"]
              /\ UNCHANGED <<state, run>>
         [] frames[f].pc = "clearUnsetKey" ->
              /\ storage' = [storage EXCEPT !.smartKey = FALSE]
              /\ frames' = [frames EXCEPT ![f].pc = "clearUnsetSmart"]
              /\ UNCHANGED <<state, run>>
         [] frames[f].pc = "clearUnsetSmart" ->
              /\ state' = [state EXCEPT !.tokenResponse = NoTokens]
              /\ frames' = [frames EXCEPT ![f] = Fail(@, Error("expired"))]
              /\ run' = <<Work("settled", f)>>
              /\ UNCHANGED storage
    /\ UNCHANGED <<refreshTask, exchs, caches, srv, callers, n401, hadToken>>

-----------------------------------------------------------------------------
(* Reference resolution: resolveRefs, resolveRef, getRef *)

EntryObj(data, e) == IF data.t = "bundle" THEN data.entry[e] ELSE data

WithEntry(data, e, obj) ==
    IF data.t = "bundle" THEN [data EXCEPT !.entry[e] = obj] ELSE obj

AllDone(tasks) == \A e \in 1..Len(tasks) : tasks[e].st = "done"

\* resolveRefs, lines 157-198: the next depth group of entry e starts, or the
\* entry is finished; the task of line 191 moves on only when the Promise.all
\* of the group before has resolved
Advance ==
    /\ run # <<>>
    /\ Head(run).op = "advance"
    /\ LET f == Head(run).f
           e == Head(run).e
           fr == frames[f]
           paths == SanitizePaths(fr.o.resolveReferences)
           keys == GroupKeys(paths)
           g == fr.tasks[e].g + 1
       IN  IF g > Len(keys)
           THEN LET tasks == [fr.tasks EXCEPT ![e].st = "done"]
                IN  /\ frames' = [frames EXCEPT ![f].tasks = tasks]
                    /\ run' = Tail(run) \o
                              (IF AllDone(tasks) /\ fr.pc = "resolve"
                               THEN <<Work("paginate", f)>> ELSE <<>>)
           ELSE LET ls == GroupLookups(EntryObj(fr.data, e), Group(paths, keys[g]))
                IN  /\ frames' = [frames EXCEPT ![f].tasks[e].g = g,
                                                ![f].tasks[e].pend = Len(ls)]
                    /\ run' = Tail(run) \o
                              (IF ls = <<>> THEN <<[Work("advance", f) EXCEPT !.e = e]>>
                               ELSE [k \in 1..Len(ls) |-> ItemWork("lookup", f, e, ls[k], 0)])
    /\ UNCHANGED <<state, refreshTask, exchs, storage, caches, srv, callers, n401,
                   hadToken>>

\* A cache test that finds nothing, whatever the cache holds
AlwaysAbsent(entry) == TRUE

\* if (!sub), line 84
Absent(entry) == entry.t = "absent"

\* What getRef returns has a then method: the promise stored at line 89, but
\* not the resolved value stored at line 93
Thenable(entry) == entry.t = "pending"

\* A lookup that stores nothing for the fetch it starts
NoPlaceholder(f) == [t |-> "absent", f |-> 0]

\* cache[refId] = client.request(...).then(...), line 89: the promise of
\* the fetch just started
Placeholder(f) == [t |-> "pending", f |-> f]

\* getRef called from resolveRef, lines 119-122
Lookup ==
    /\ run # <<>>
    /\ Head(run).op = "lookup"
    /\ LET w == Head(run)
           f == w.f
           fr == frames[f]
           entry == caches[fr.c][w.id]
           waiter == [e |-> w.e, p |-> w.p, i |-> w.i, id |-> w.id]
       IN  IF fr.tasks[w.e].st = "rej"
           THEN \* an earlier lookup of this group has thrown: map() was left
                /\ run' = Tail(run)
                /\ UNCHANGED <<frames, caches>>
           ELSE IF Absent(entry)
           THEN /\ Len(frames) < MaxFrames
                /\ frames' = Append([frames EXCEPT ![f].wait = Append(@, waiter)],
                                    NewFrame("ref", f, fr.top, w.id, EmptyFhirOptions,
                                             Len(frames) + 1, fr.sig))
                /\ caches' = [caches EXCEPT ![fr.c][w.id] = Placeholder(Len(frames) + 1)]
                /\ run' = Tail(run)
           ELSE IF Thenable(entry)
           THEN /\ frames' = [frames EXCEPT ![f].wait = Append(@, waiter)]
                /\ run' = Tail(run)
                /\ UNCHANGED caches
           ELSE \* getRef(...).then is not a function
                LET fr1 == [fr EXCEPT !.tasks[w.e].st = "rej"]
                    fr2 == IF fr.pc = "resolve" THEN Fail(fr1, Error("typeError")) ELSE fr1
                IN  /\ frames' = [frames EXCEPT ![f] = fr2]
                    /\ run' = Tail(run) \o (IF fr.pc = "resolve" THEN Notify(f, fr2) ELSE <<>>)
                    /\ UNCHANGED caches
    /\ UNCHANGED <<state, refreshTask, exchs, storage, srv, callers, n401, hadToken>>

RECURSIVE WaitersOf(_, _, _, _)
WaitersOf(f, wait, id, src) ==
    IF wait = <<>> THEN <<>>
    ELSE (IF Head(wait).id = id
          THEN <<ItemWork("item", f, Head(wait).e, Head(wait), src)>>
          ELSE <<>>) \o WaitersOf(f, Tail(wait), id, src)

\* A cache that keeps the entry of a failed fetch
CacheKeepsFailure(child, fr) == [t |-> "val", f |-> child]

\* The entry of the cache when the fetch of getRef has settled, lines 92-98
CacheAfterFetch(child, fr) ==
    IF fr.pc = "done" THEN [t |-> "val", f |-> child] ELSE [t |-> "absent", f |-> 0]

\* The request started by getRef has settled: the cache is updated, then the
\* reactions of resolveRef run for everyone who got the promise
SettledRef ==
    /\ run # <<>>
    /\ Head(run).op = "settled"
    /\ frames[Head(run).f].kind = "ref"
    /\ LET child == Head(run).f
           f == frames[child].parent
           id == frames[child].url
       IN  /\ caches' = [caches EXCEPT ![frames[f].c][id] =
                             CacheAfterFetch(child, frames[child])]
           /\ frames' = [frames EXCEPT ![f].wait =
                             SelectSeq(@, LAMBDA w : w.id # id)]
           /\ run' = Tail(run) \o WaitersOf(f, frames[f].wait, id, child)
    /\ UNCHANGED <<state, refreshTask, exchs, storage, srv, callers, n401, hadToken>>

\* A catch handler that rethrows whatever it gets
NeverSwallowed(err) == FALSE

\* if (ex.status !== 404) throw ex, lines 130-135
Swallowed(err) == err.status = 404

\* A splice that forgets the array index
SplicedAtPath(fr, w, sub) ==
    IF fr.o.graph
    THEN WithEntry(fr.data, w.e, setPath(EntryObj(fr.data, w.e), w.p, sub))
    ELSE fr.data

\* if (graph) setPath(...), lines 123-129
Spliced(fr, w, sub) ==
    IF fr.o.graph
    THEN WithEntry(fr.data, w.e,
                   IF w.i # 0 THEN setPathIndex(EntryObj(fr.data, w.e), w.p, w.i, sub)
                   ELSE setPath(EntryObj(fr.data, w.e), w.p, sub))
    ELSE fr.data

\* The fetched resource is one object: the cache, the result of the fetch and
\* every place it was spliced in hold the same object.  A splice at a path
\* that runs through such a place (a.c, where a is a fetched resource) writes
\* into that object.
Shared(fs, fr, w, sub) ==
    LET obj == EntryObj(fr.data, w.e)
        through == {q \in Paths : IsProperPrefix(q, w.p) /\ getPath(obj, q).t = "res"}
        q == CHOOSE x \in through : TRUE
        owner == CHOOSE c \in 1..Len(fs) :
                     /\ fs[c].kind = "ref" /\ fs[c].pc = "done"
                     /\ fs[c].url = getPath(obj, q).id
                     /\ fs[fs[c].parent].c = fr.c
    IN  IF fr.o.graph /\ w.i = 0 /\ through # {}
        THEN [fs EXCEPT ![owner].data =
                 setPath(@, SubSeq(w.p, Len(q) + 1, Len(w.p)), sub)]
        ELSE fs

\* One reaction of resolveRef, lines 122-135
Item ==
    /\ run # <<>>
    /\ Head(run).op = "item"
    /\ LET w == Head(run)
           f == w.f
           fr == frames[f]
           child == frames[w.src]
           rejects == child.pc = "failed" /\ ~Swallowed(child.err)
           fr1 == IF child.pc = "done" THEN [fr EXCEPT !.data = Spliced(fr, w, child.data)]
                  ELSE fr
           fr2 == [fr1 EXCEPT !.tasks[w.e].pend = @ - 1,
                              !.tasks[w.e].st = IF rejects THEN "rej" ELSE @]
           fr3 == IF rejects /\ fr.pc = "resolve" THEN Fail(fr2, child.err) ELSE fr2
       IN  /\ frames' = [(IF child.pc = "done" THEN Shared(frames, fr, w, child.data)
                            ELSE frames) EXCEPT ![f] = fr3]
           /\ run' = Tail(run)
                     \o (IF rejects /\ fr.pc = "resolve" THEN Notify(f, fr3) ELSE <<>>)
                     \o (IF fr3.tasks[w.e].pend = 0 /\ fr3.tasks[w.e].st = "run"
                         THEN <<[Work("advance", f) EXCEPT !.e = w.e]>> ELSE <<>>)
    /\ UNCHANGED <<state, refreshTask, exchs, storage, caches, srv, callers, n401,
                   hadToken>>

-----------------------------------------------------------------------------
(* Pagination, lines 852-897 *)

\* A budget test that never stops
NoBudgetTest(pageLimit) == TRUE

\* A budget test that takes a negative budget for a used-up one
BudgetPositive(pageLimit) == pageLimit - 1 > 0

\* if (--options.pageLimit), line 866
BudgetLeft(pageLimit) == pageLimit - 1 # 0

\* From the budget test on: the next page is requested, or the result is
\* finalized
AfterPage(fr) ==
    LET fr1 == [fr EXCEPT !.o.pageLimit = @ - 1]
        fr2 == [fr1 EXCEPT !.data = makeArray(@)]
    IN  IF BudgetLeft(fr.o.pageLimit)
        THEN IF fr.next # "" THEN [fr2 EXCEPT !.pc = "nextWait"]
             ELSE Finalize(fr2, fr2.data)
        ELSE Finalize(fr1, fr1.data)

\* this.request({url: next.url, signal}, options, _resolvedRefs), line 870
NextPageFrame(f, fr) ==
    NewFrame("page", f, fr.top, fr.next, AsFhirOptions(fr.o), fr.c, fr.sig)

WithNextPage(fs, f, fr) ==
    IF fr.pc = "nextWait" THEN Append([fs EXCEPT ![f] = fr], NextPageFrame(f, fr))
    ELSE [fs EXCEPT ![f] = fr]

\* (_data.entry || []).map(entry => entry.resource), line 857
Flat(data) == ArrayOf(data.entry)

\* All references of the payload are resolved: flat, onPage, budget
Paginate ==
    /\ run # <<>>
    /\ Head(run).op = "paginate"
    /\ LET f == Head(run).f
           fr == frames[f]
           fr1 == [fr EXCEPT !.next = fr.data.next,
                             !.data = IF fr.o.flat THEN Flat(fr.data) ELSE fr.data]
           fr2 == IF fr.data.t # "bundle" THEN Finalize(fr, fr.data)
                  ELSE IF fr.o.onPage
                       THEN [fr1 EXCEPT !.pc = "onPage",
                                        !.calls = Append(@, [data |-> fr1.data,
                                                             references |-> caches[fr.c]])]
                       ELSE AfterPage(fr1)
       IN  /\ fr2.pc = "nextWait" => Len(frames) < MaxFrames
           /\ frames' = WithNextPage(frames, f, fr2)
           /\ run' = Tail(run) \o Notify(f, fr2)
    /\ UNCHANGED <<state, refreshTask, exchs, storage, caches, srv, callers, n401,
                   hadToken>>

\* await options.onPage(...) returns, line 863
OnPageReturn(f) ==
    /\ run = <<>>
    /\ f \in 1..Len(frames)
    /\ frames[f].pc = "onPage"
    /\ LET fr == AfterPage(frames[f])
       IN  /\ fr.pc = "nextWait" => Len(frames) < MaxFrames
           /\ frames' = WithNextPage(frames, f, fr)
           /\ run' = Notify(f, fr)
    /\ UNCHANGED <<state, refreshTask, exchs, storage, caches, srv, callers, n401,
                   hadToken>>

\* nextPage.data || nextPage, line 890
PageData(nextPage) == IF nextPage.t = "pair" THEN nextPage.data ELSE nextPage

Concat(data, more) == ArrayOf(data.items \o more.items)

\* lines 884-892, with the result of the recursive call
Accumulate(fr, nextPage) ==
    IF fr.o.onPage THEN Finalize(fr, NullValue)
    ELSE IF Len(fr.o.resolveReferences) # 0
         THEN IF nextPage.t = "null" THEN Fail(fr, Error("typeError"))
              ELSE Finalize(fr, Concat(fr.data, makeArray(PageData(nextPage))))
         ELSE Finalize(fr, Concat(fr.data, makeArray(nextPage)))

\* The recursive request of the next page has settled
SettledPage ==
    /\ run # <<>>
    /\ Head(run).op = "settled"
    /\ frames[Head(run).f].kind = "page"
    /\ LET child == frames[Head(run).f]
           f == child.parent
           fr == IF child.pc = "done" THEN Accumulate(frames[f], child.data)
                 ELSE Fail(frames[f], child.err)
       IN  /\ frames' = [frames EXCEPT ![f] = fr]
           /\ run' = Tail(run) \o Notify(f, fr)
    /\ UNCHANGED <<state, refreshTask, exchs, storage, caches, srv, callers, n401,
                   hadToken>>

\* The retry of line 772 has settled: its result is the value the refresh
\* handler returns, so it runs through lines 816-911 of the caller; its
\* failure reaches the caller's terminal handler
SettledRetry ==
    /\ run # <<>>
    /\ Head(run).op = "settled"
    /\ frames[Head(run).f].kind = "retry"
    /\ LET child == frames[Head(run).f]
           f == child.parent
           fr == IF child.pc = "done" THEN OnData(frames[f], child.data)
                 ELSE RouteError(frames[f], child.err)
       IN  /\ frames' = [frames EXCEPT ![f] = fr]
           /\ run' = Tail(run) \o (IF child.pc = "done" THEN OnDataWork(f, fr)
                                   ELSE Notify(f, fr))
    /\ UNCHANGED <<state, refreshTask, exchs, storage, caches, srv, callers, n401,
                   hadToken>>

\* The promise of a top-level call has settled: the application has the result
SettledTop ==
    /\ run # <<>>
    /\ Head(run).op = "settled"
    /\ frames[Head(run).f].kind = "top"
    /\ run' = Tail(run)
    /\ UNCHANGED <<state, refreshTask, exchs, storage, frames, caches, srv, callers,
                   n401, hadToken>>

-----------------------------------------------------------------------------

\* Requests of one resource and refresh() calls, side by side
Next ==
    \/ PlainRequest
    \/ Refresh
    \/ \E f \in 1..MaxFrames : RespondOk(f)
    \/ \E f \in 1..MaxFrames, status \in {403, 404, 500} : RespondError(f, status)
    \/ \E f \in 1..MaxFrames : Respond401(f)
    \/ \E x \in 1..MaxExchanges, oc \in TokenOutcomes : TokenRespond(x, oc)
    \/ AfterRefresh
    \/ \E f \in 1..MaxFrames : ClearStep(f)
    \/ Advance
    \/ Paginate
    \/ SettledRetry
    \/ SettledTop

Spec == Init /\ [][Next]_vars

\* One request with references and pages, on the session of a launched app
InitRes == Init /\ state = FullSession

NextRes ==
    \/ ResourceRequest
    \/ \E f \in 1..MaxFrames : RespondOk(f)
    \/ \E f \in 1..MaxFrames, status \in {403, 404, 500} : RespondError(f, status)
    \/ \E f \in 1..MaxFrames : Respond401(f)
    \/ \E x \in 1..MaxExchanges, oc \in TokenOutcomes : TokenRespond(x, oc)
    \/ AfterRefresh
    \/ \E f \in 1..MaxFrames : ClearStep(f)
    \/ Advance
    \/ Lookup
    \/ SettledRef
    \/ Item
    \/ Paginate
    \/ \E f \in 1..MaxFrames : OnPageReturn(f)
    \/ SettledPage
    \/ SettledRetry
    \/ SettledTop

SpecRes == InitRes /\ [][NextRes]_vars

\* Requests that carry an AbortSignal
NextSig ==
    \/ SignalRequest
    \/ \E f \in 1..MaxFrames : RespondOk(f)
    \/ \E f \in 1..MaxFrames, status \in {403, 404, 500} : RespondError(f, status)
    \/ \E f \in 1..MaxFrames : Respond401(f)
    \/ \E x \in 1..MaxExchanges, oc \in TokenOutcomes : TokenRespond(x, oc)
    \/ AfterRefresh
    \/ \E f \in 1..MaxFrames : ClearStep(f)
    \/ Advance
    \/ Lookup
    \/ SettledRef
    \/ Item
    \/ Paginate
    \/ \E f \in 1..MaxFrames : OnPageReturn(f)
    \/ SettledPage
    \/ SettledRetry
    \/ SettledTop

SpecSig == InitRes /\ [][NextSig]_vars

\* The transport calls in flight that carry signal s
AbortedFrames(s) == {f \in 1..Len(frames) : Fetching(f) /\ frames[f].sig = s}
AbortedExchanges(s) ==
    {x \in 1..Len(exchs) : exchs[x].st = "flight" /\ exchs[x].sig = s}

\* The rejections of the calls of invocations f..Len(frames) that carry s
RECURSIVE AbortWork(_, _)
AbortWork(s, f) ==
    IF f > Len(frames) THEN <<>>
    ELSE (IF f \in AbortedFrames(s) THEN <<Work("settled", f)>> ELSE <<>>)
         \o AbortWork(s, f + 1)

\* The application triggers signal s of a request that has not settled: each
\* call in flight that carries it rejects with an AbortError. The request
\* handlers of lines 767-814 rethrow it; for a token exchange the catch and
\* finally handlers of lines 972-986 run
Abort(s) ==
    /\ run = <<>>
    /\ \E t \in TopFrames : frames[t].sig = s /\ ~Settled(frames[t])
    /\ frames' = [f \in 1..Len(frames) |->
                    IF f \in AbortedFrames(s)
                    THEN [RouteError(frames[f], AbortError) EXCEPT !.sig = Triggered(s)]
                    ELSE IF frames[f].sig = s
                         THEN [frames[f] EXCEPT !.sig = Triggered(s)]
                         ELSE frames[f]]
    /\ exchs' = [x \in 1..Len(exchs) |->
                   IF x \in AbortedExchanges(s)
                   THEN [exchs[x] EXCEPT !.st = "failed", !.err = AbortError,
                                         !.sig = Triggered(s)]
                   ELSE IF exchs[x].sig = s
                        THEN [exchs[x] EXCEPT !.sig = Triggered(s)]
                        ELSE exchs[x]]
    /\ IF AbortedExchanges(s) # {}
       THEN LET x == CHOOSE y \in AbortedExchanges(s) : TRUE
                tr == DropRefreshToken(state.tokenResponse)
            IN  /\ state' = [state EXCEPT !.tokenResponse = tr]
                /\ storage' = StorageAfterExchange(tr)
                /\ refreshTask' = 0
                /\ callers' = [k \in 1..Len(callers) |->
                                 IF callers[k].st = "wait" /\ callers[k].fut = x
                                 THEN [callers[k] EXCEPT !.st = "failed",
                                                         !.err = AbortError,
                                                         !.seen = tr]
                                 ELSE callers[k]]
                /\ run' = AbortWork(s, 1) \o Awaiting(x, 1)
       ELSE /\ run' = AbortWork(s, 1)
            /\ UNCHANGED <<state, storage, refreshTask, callers>>
    /\ UNCHANGED <<caches, srv, n401, hadToken>>

\* A call made with a signal that was triggered before: the transport
\* rejects it at once
AbortedCall(f) ==
    /\ run = <<>>
    /\ f \in 1..Len(frames)
    /\ frames[f].pc = "fetch"
    /\ Aborted(frames[f].sig)
    /\ LET fr == RouteError(frames[f], AbortError)
       IN  /\ frames' = [frames EXCEPT ![f] = fr]
           /\ run' = Notify(f, fr)
    /\ UNCHANGED <<state, refreshTask, exchs, storage, caches, srv, callers, n401,
                   hadToken>>

\* Requests that carry an AbortSignal the application may trigger
NextAbort ==
    \/ NextSig
    \/ \E s \in Signals : Abort(s)
    \/ \E f \in 1..MaxFrames : AbortedCall(f)

SpecAbort == InitRes /\ [][NextAbort]_vars

-----------------------------------------------------------------------------
(* Properties *)

InFlight == {x \in 1..Len(exchs) : exchs[x].st = "flight"}

\* Callers of refresh() that got past the three checks
Joined == {k \in 1..Len(callers) : callers[k].fut # 0}

\* C1: calls of refresh() made while an exchange is in flight start no second
\* exchange: at most one POST is in flight, everyone who waits (direct
\* callers and requests that got 401) holds the future of the slot, and
\* callers of the same exchange settle alike, with the same session state
C1_SingleFlight ==
    /\ Cardinality(InFlight) <= 1
    /\ \A k \in Joined :
          callers[k].st = "wait" => callers[k].fut = refreshTask /\ refreshTask \in InFlight
    /\ \A f \in 1..Len(frames) :
          frames[f].pc = "refreshWait" /\ frames[f].fut \in InFlight
              => frames[f].fut = refreshTask
    /\ \A j, k \in Joined :
          callers[j].epoch = callers[k].epoch
              => /\ callers[j].fut = callers[k].fut
                 /\ callers[j].st = callers[k].st
                 /\ callers[j].seen = callers[k].seen

\* Two calls of refresh() during one exchange, both resolved
C1_Witness ==
    \E j, k \in Joined :
        /\ j < k
        /\ callers[j].epoch = callers[k].epoch
        /\ callers[j].st = "ok" /\ callers[k].st = "ok"
        /\ callers[j].seen.access_token # 0
        /\ Len(exchs) = 1

\* The transport attempts made for top-level request t
Attempts(t) ==
    {f \in 1..Len(frames) :
        frames[f].top = t /\ frames[f].kind \in {"top", "retry"}
                         /\ frames[f].url = frames[t].url}

\* C2: a request that is alone on its client (no other request, no direct
\* refresh() call) causes at most two transport attempts of its url and at
\* most one token exchange, whatever the server answers
C2_RetriedOnce ==
    \A t \in TopFrames :
        TopFrames = {t} /\ callers = <<>>
            => Cardinality(Attempts(t)) <= 2 /\ Len(exchs) <= 1

\* The fetches of reference id made on behalf of top-level request t
RefFetches(t, id) ==
    {f \in 1..Len(frames) :
        frames[f].kind = "ref" /\ frames[f].top = t /\ frames[f].url = id}

\* C3 as stated: in a request that met no 401, a reference id is fetched at
\* most once, whatever the outcome of the fetch and whatever the depth groups
C3_FetchedOnce ==
    \A t \in TopFrames, id \in RefIds :
        n401 = 0 => Cardinality(RefFetches(t, id)) <= 1

\* C3, amended: a reference id has at most one fetch under way, and it is
\* fetched again only after a fetch of it has failed: the fetches of an id
\* number at most one more than its failed fetches
C3_FetchedOncePerFailure ==
    \A t \in TopFrames, id \in RefIds :
        /\ Cardinality({f \in RefFetches(t, id) : ~Settled(frames[f])}) <= 1
        /\ Cardinality(RefFetches(t, id))
              <= 1 + Cardinality({f \in RefFetches(t, id) : frames[f].pc = "failed"})

\* P1 occurs in field a and in the array b of R1: one fetch, spliced twice
C3_Witness ==
    \E t \in TopFrames :
        /\ frames[t].pc = "done"
        /\ frames[t].data.t = "res"
        /\ frames[t].data.nodes[pA] = ResNode("P1")
        /\ frames[t].data.nodes[pB].t = "arr"
        /\ frames[t].data.nodes[pB].items[1] = ResNode("P1")
        /\ Cardinality(RefFetches(t, "P1")) = 1

\* C4: the fetch of a later page does not fail on a reference that an
\* earlier page has left in the cache
C4_LaterPageUsesCache ==
    \A f \in 1..Len(frames) :
        n401 = 0 /\ frames[f].kind = "page" => frames[f].err # Error("typeError")

Min(a, b) == IF a < b THEN a ELSE b

\* The fetches of pages made for top-level request t, retries not counted
PageFetches(t) ==
    {f \in 1..Len(frames) : frames[f].top = t /\ frames[f].kind \in {"top", "page"}}

\* C5: a Bundle request without onPage and with pageLimit >= 1 fetches at
\* most min(pageLimit, L) pages of a chain of L pages, and exactly that many
\* when it succeeds
C5_PageFetches ==
    \A t \in TopFrames :
        (/\ DB(frames[t].url).t = "bundle" /\ ~frames[t].o.onPage
         /\ Options(frames[t].fo).pageLimit >= 1)
            => LET want == IF Cyclic(frames[t].url) THEN Options(frames[t].fo).pageLimit
                           ELSE Min(Options(frames[t].fo).pageLimit,
                                    ChainLen(frames[t].url))
               IN  /\ Cardinality(PageFetches(t)) <= want
                   /\ frames[t].pc = "done" => Cardinality(PageFetches(t)) = want

\* pageLimit 2 on the chain B1 -> B2 -> B3: two pages fetched, B3 not
C5_Witness ==
    \E t \in TopFrames :
        /\ frames[t].pc = "done"
        /\ frames[t].url = "B1"
        /\ ~frames[t].o.onPage
        /\ Options(frames[t].fo).pageLimit = 2
        /\ Cardinality(PageFetches(t)) = 2

\* graph = false, reference paths given, no onPage
WantsPair(o) == ~o.graph /\ Len(o.resolveReferences) # 0 /\ ~o.onPage

\* C6 as stated: every successful request with graph = true has a result
\* without the {data, references} wrapper, and every successful request with
\* graph = false, reference paths and no onPage has the wrapper
C6_PairOrBare ==
    \A t \in TopFrames :
        frames[t].pc = "done"
            => /\ frames[t].o.graph => frames[t].data.t # "pair"
               /\ WantsPair(frames[t].o) => frames[t].data.t = "pair"

\* C6, amended: the same, the wrapper being promised only when the payload
\* is JSON (a resource or a Bundle), not a body that passes through
C6_PairOrBareJson ==
    \A t \in TopFrames :
        frames[t].pc = "done"
            => /\ frames[t].o.graph => frames[t].data.t # "pair"
               /\ WantsPair(frames[t].o) /\ DB(frames[t].url).t # "raw"
                      => frames[t].data.t = "pair"

\* A two-page accumulation returned as {data, references}
C6_Witness ==
    \E t \in TopFrames :
        /\ frames[t].pc = "done"
        /\ WantsPair(frames[t].o)
        /\ frames[t].url = "B1"
        /\ Cardinality(PageFetches(t)) = 2
        /\ frames[t].data.t = "pair"
        /\ frames[t].data.data.t = "arr"

\* The data of a result, with or without wrapper
ResultData(d) == IF d.t = "pair" THEN d.data ELSE d

\* The entry resources of the first n pages of the chain that starts at url
RECURSIVE PageEntries(_, _)
PageEntries(url, n) ==
    IF n = 0 \/ url = "" THEN <<>>
    ELSE [i \in 1..Len(DB(url).entry) |-> DB(url).entry[i].url]
             \o PageEntries(DB(url).next, n - 1)

\* C7: with flat = true (and no onPage) the data of a successful Bundle
\* request is an array of the entry resources of the pages followed, in
\* chain order
C7_FlatEntries ==
    \A t \in TopFrames :
        /\ frames[t].pc = "done"
        /\ frames[t].o.flat /\ ~frames[t].o.onPage
        /\ DB(frames[t].url).t = "bundle"
        => LET d == ResultData(frames[t].data)
           IN  /\ d.t = "arr"
               /\ [i \in 1..Len(d.items) |-> d.items[i].url]
                      = PageEntries(frames[t].url, Options(frames[t].fo).pageLimit)

\* The reaction of resolveRef to a settled reference fetch
C8_Reaction ==
    run # <<>> /\ Head(run).op = "item"
        => LET f == Head(run).f
               child == frames[Head(run).src]
           IN  /\ child.pc = "failed" /\ child.err.status = 404
                     => /\ frames'[f].pc = frames[f].pc
                        /\ frames'[f].err = frames[f].err
                        /\ frames'[f].data = frames[f].data
                        /\ caches' = caches
               /\ child.pc = "failed" /\ child.err.status # 404
                     => frames'[f].pc = "failed"

\* The cache when a reference fetch has failed
C8_Deleted ==
    run # <<>> /\ Head(run).op = "settled" /\ frames[Head(run).f].kind = "ref"
               /\ frames[Head(run).f].pc = "failed"
        => LET child == frames[Head(run).f]
           IN  caches'[frames[child.parent].c][child.url].t = "absent"

\* C8: a reference fetch that fails with 404 neither fails the request nor
\* changes its payload (the reference node stays) nor leaves anything in the
\* cache, and no request ever fails with a 404 of one of its references; a
\* reference fetch that fails otherwise fails the request that looked it up
C8_MissingReference ==
    /\ [](\A f \in 1..Len(frames) :
             frames[f].kind # "ref" => frames[f].err.status # 404)
    /\ [][C8_Reaction /\ C8_Deleted]_vars

\* A request that succeeded although P1 was answered 404: field a is still
\* the reference, the cache has no P1
C8_Witness ==
    \E t \in TopFrames :
        /\ frames[t].pc = "done"
        /\ frames[t].o.graph
        /\ frames[t].data.t = "res"
        /\ \E i \in 1..Len(frames[t].o.resolveReferences) :
              frames[t].o.resolveReferences[i] = pA
        /\ frames[t].data.nodes[pA] = RefNode("P1")
        /\ \E f \in RefFetches(t, "P1") : frames[f].err = HttpError(404)
        /\ caches[frames[t].c]["P1"].t = "absent"

\* C9: a request that was sent with an access token fails as "not launched
\* as an authorized app" only if the session never held an access token
C9_NotLaunchedOnlyWithoutToken ==
    \A f \in 1..Len(frames) :
        /\ frames[f].auth.scheme = "Bearer"
        /\ frames[f].pc = "failed"
        /\ frames[f].err = Error("notLaunched")
        => ~hadToken

FailedExchanges == {x \in 1..Len(exchs) : exchs[x].st = "failed"}

\* C10: once a token exchange has failed the session holds no refresh token,
\* so every caller of refresh() that observes the failure finds none, no
\* later exchange carries the refresh token of the failed one, and a later
\* 401 does not call refresh() again
C10_NoTokenAfterFailure ==
    /\ FailedExchanges # {} => state.tokenResponse.refresh_token = 0
    /\ \A k \in 1..Len(callers) :
          callers[k].st = "failed" => callers[k].seen.refresh_token = 0
    /\ \A x \in FailedExchanges, y \in 1..Len(exchs) :
          x < y => exchs[y].rt # exchs[x].rt
    /\ \A f \in 1..Len(frames) :
          FailedExchanges # {} /\ Fetching(f) => ~RefreshesOn401(frames[f])

\* A refresh() call has seen its exchange fail, and a request with automatic
\* refresh that got 401 afterwards went to the terminal handler at once
C10_Witness ==
    /\ FailedExchanges # {}
    /\ \E k \in 1..Len(callers) : callers[k].st = "failed"
    /\ \E f \in 1..Len(frames) :
          /\ frames[f].o.useRefreshToken
          /\ frames[f].fut = 0
          /\ frames[f].err = Error("expired")

\* The resources as the server holds them, by url
AllEntries == DB("B1").entry \o DB("B2").entry \o DB("B3").entry \o DB("L").entry

Orig(url) ==
    IF \E i \in 1..Len(AllEntries) : AllEntries[i].url = url
    THEN AllEntries[CHOOSE i \in 1..Len(AllEntries) : AllEntries[i].url = url]
    ELSE DB(url)

\* The resources of a result
RECURSIVE ItemResources(_)
ItemResources(items) ==
    IF items = <<>> THEN <<>>
    ELSE (CASE Head(items).t = "res" -> <<Head(items)>>
            [] Head(items).t = "bundle" -> Head(items).entry
            [] OTHER -> <<>>) \o ItemResources(Tail(items))

Resources(d) ==
    CASE d.t \in {"res", "bundle"} -> ItemResources(<<d>>)
      [] d.t = "arr" -> ItemResources(d.items)
      [] OTHER -> <<>>

\* The paths resolveRefs works on
Configured(o) ==
    LET paths == SanitizePaths(o.resolveReferences)
    IN  {paths[i] : i \in 1..Len(paths)}

Fetched(t, id) == \E f \in RefFetches(t, id) : frames[f].pc = "done"

\* What a node has to be in the result: at a configured path a reference
\* whose fetch succeeded is the fetched resource, everything else is as served
ExpectNode(t, node, conf) ==
    CASE conf /\ node.t = "ref" /\ Fetched(t, node.id) -> ResNode(node.id)
      [] conf /\ node.t = "arr" ->
           ArrNode([i \in 1..Len(node.items) |->
                       IF node.items[i].t = "ref" /\ Fetched(t, node.items[i].id)
                       THEN ResNode(node.items[i].id) ELSE node.items[i]])
      [] OTHER -> node

\* The places of resource r that hold a fetched resource
Above(r, q) == {q0 \in Paths : IsProperPrefix(q0, q) /\ r.nodes[q0].t = "res"}

\* Every location of resource r of the result of t is as ExpectNode says;
\* below a spliced resource the fields are those of the fetched resource
ExactLocations(t, r) ==
    \A q \in Paths :
        IF Above(r, q) = {}
        THEN r.nodes[q] = ExpectNode(t, Orig(r.url).nodes[q], q \in Configured(frames[t].o))
        ELSE \A q0 \in Above(r, q) :
                r.nodes[q] = ExpectNode(t, getPath(DB(r.nodes[q0].id),
                                                   SubSeq(q, Len(q0) + 1, Len(q))),
                                        q \in Configured(frames[t].o))

\* The places of the result of t where the fetched resource id sits: paths,
\* and elements of arrays
PathPlaces(t, id) ==
    {<<k, q>> \in (1..Len(Resources(frames[t].data))) \X Paths :
        Resources(frames[t].data)[k].nodes[q] = ResNode(id)}

ItemPlaces(t, id) ==
    {<<k, q>> \in (1..Len(Resources(frames[t].data))) \X Paths :
        LET n == Resources(frames[t].data)[k].nodes[q]
        IN  n.t = "arr" /\ \E i \in 1..Len(n.items) : n.items[i] = ResNode(id)}

\* The fetched resources of t, as objects
Objects(t) ==
    {f \in 1..Len(frames) :
        frames[f].kind = "ref" /\ frames[f].top = t /\ frames[f].pc = "done"}

GraphResult(t) ==
    /\ frames[t].pc = "done" /\ frames[t].o.graph
    /\ ~frames[t].o.onPage /\ n401 = 0

\* C11 as stated: with graph = true every reference whose fetch succeeded is
\* replaced by the fetched resource where it stood (path, array index, each
\* Bundle entry), and nothing else changes: a fetched resource has a field
\* replaced only if that field is a configured path at every place where the
\* resource sits
C11_SplicedInPlace ==
    \A t \in TopFrames :
        GraphResult(t)
        => /\ \A k \in 1..Len(Resources(frames[t].data)) :
                 ExactLocations(t, Resources(frames[t].data)[k])
           /\ \A f \in Objects(t), s \in Paths :
                 frames[f].data.nodes[s] # DB(frames[f].url).nodes[s]
                 => /\ ItemPlaces(t, frames[f].url) = {}
                    /\ \A pl \in PathPlaces(t, frames[f].url) :
                          pl[2] \o s \in Configured(frames[t].o)

\* C11, amended: the same, but a fetched resource is one object wherever it
\* sits: a field of it is replaced if that field is a configured path at
\* some place where the resource sits, and the replacement then shows at all
\* its places
C11_SplicedInPlaceShared ==
    \A t \in TopFrames :
        GraphResult(t)
        => /\ \A k \in 1..Len(Resources(frames[t].data)) :
                 ExactLocations(t, Resources(frames[t].data)[k])
           /\ \A f \in Objects(t), s \in Paths :
                 LET conf == \E pl \in PathPlaces(t, frames[f].url) :
                                 pl[2] \o s \in Configured(frames[t].o)
                 IN  frames[f].data.nodes[s]
                        = ExpectNode(t, DB(frames[f].url).nodes[s], conf)

\* R1 with paths a, b, a.c: P1 sits at a and at b[1], P3 was spliced at a.c,
\* that is into P1, and so shows below b[1] as well
C11_Witness ==
    \E t \in TopFrames :
        /\ GraphResult(t)
        /\ frames[t].data.t = "res"
        /\ frames[t].data.nodes[pA] = ResNode("P1")
        /\ frames[t].data.nodes[pB].t = "arr"
        /\ frames[t].data.nodes[pB].items[1] = ResNode("P1")
        /\ frames[t].data.nodes[pB].items[2] = ResNode("P2")
        /\ frames[t].data.nodes[pAC] = ResNode("P3")
        /\ \E f \in Objects(t) :
              frames[f].url = "P1" /\ frames[f].data.nodes[pC] = ResNode("P3")

\* The payload inside a { data, references } result
RECURSIVE Payload(_)
Payload(d) == IF d.t = "pair" THEN Payload(d.data) ELSE d

PairResult(t) ==
    /\ frames[t].pc = "done"
    /\ ~frames[t].o.graph /\ Len(frames[t].o.resolveReferences) # 0
    /\ frames[t].data.t = "pair"

C13_OnPageNull ==
    \A t \in TopFrames :
        (/\ frames[t].pc = "done" /\ frames[t].o.onPage
         /\ DB(frames[t].url).t = "bundle" /\ n401 = 0)
        => /\ Len(frames[t].calls) = 1
           /\ frames[t].calls[1].references \in [RefIds -> [t : {"absent", "pending", "val"}, f : 0..MaxFrames + 1]]
           /\ frames[t].data = NullValue

SameSignal(f) == frames[f].sig = frames[frames[f].top].sig

RefreshWaiting == {f \in 1..Len(frames) : frames[f].pc = "refreshWait"}

\* C14 as stated: every transport call made for a request carries the signal
\* of that request: the attempt, the retry, the reference and page fetches,
\* and the token exchange its refresh waits for, started or joined
C14_SameSignal ==
    \A f \in 1..Len(frames) :
        /\ SameSignal(f)
        /\ (f \in RefreshWaiting /\ frames[f].sig # NoSignal)
           => exchs[frames[f].fut].sig = frames[f].sig

\* C14, amended: the attempt, the retry, the reference and page fetches carry
\* the signal of the request; a token exchange carries the signal of the
\* request whose refresh started it, and a refresh that finds an exchange in
\* flight waits for that one and starts none
C14_SignalOfStarter ==
    /\ [](\A f \in 1..Len(frames) : SameSignal(f))
    /\ [][\A f \in 1..Len(frames) :
            (frames[f].pc = "fetch" /\ frames'[f].pc = "refreshWait")
            => IF refreshTask = 0
               THEN /\ Len(exchs') = Len(exchs) + 1
                    /\ frames'[f].fut = Len(exchs')
                    /\ exchs'[Len(exchs')].sig = frames[f].sig
               ELSE /\ exchs' = exchs
                    /\ frames'[f].fut = refreshTask]_vars

\* A request with signal 2 waits for the exchange that a request with signal
\* 1 started
C14_Witness ==
    \E f, g \in RefreshWaiting :
        /\ frames[f].fut = frames[g].fut
        /\ frames[f].sig = 1 /\ frames[g].sig = 2
        /\ exchs[frames[f].fut].sig = 1

RetryFrames == {f \in 1..Len(frames) : frames[f].kind = "retry"}

\* C15: the Authorization header of an attempt is the one the session gives
\* at the moment the attempt is issued; the retry after a successful refresh
\* carries the access token that the exchange delivered, not the one of the
\* attempt that was answered 401
C15_RetryCarriesNewToken ==
    /\ [](\A f \in RetryFrames :
             LET first == frames[frames[f].parent]
             IN  /\ frames[f].auth = [scheme |-> "Bearer", token |-> first.fut + 1]
                 /\ exchs[first.fut].st = "ok"
                 /\ frames[f].auth # first.auth)
    /\ [][\A f \in 1..Len(frames') :
            f > Len(frames) => frames'[f].auth = getAuthorizationHeader]_vars

\* A retry was issued and answered: it went out with the second access token
\* while the first attempt had carried the first
C15_Witness ==
    \E f \in RetryFrames :
        /\ frames[f].pc = "done"
        /\ frames[frames[f].parent].auth = [scheme |-> "Bearer", token |-> 1]
        /\ frames[f].auth = [scheme |-> "Bearer", token |-> 2]

\* C16 as stated: when a token exchange settles, the session is written to
\* storage exactly if the exchange succeeded and state.key is present, and
\* what is written holds the merged tokens; otherwise storage is not written
C16_WrittenOnSuccess ==
    [][\A x \in 1..Len(exchs) :
          (exchs[x].st = "flight" /\ exchs'[x].st # "flight")
          => storage' = IF exchs'[x].st = "ok" /\ state.key
                        THEN [storage EXCEPT !.session =
                                 [present |-> TRUE,
                                  tokenResponse |-> state'.tokenResponse]]
                        ELSE storage]_vars

\* C17: a transport failure with status 403 fails the request with that very
\* error; the step starts no token exchange and no retry and leaves the
\* session state, the stored session and the refresh slot as they are, and
\* the failed request does nothing afterwards
C17_Forbidden ==
    [][\A f \in 1..Len(frames) :
          /\ RespondError(f, 403)
             => /\ frames'[f] = Fail(frames[f], HttpError(403))
                /\ Len(frames') = Len(frames)
                /\ UNCHANGED <<state, storage, exchs, refreshTask>>
          /\ (frames[f].pc = "failed" /\ frames[f].err = HttpError(403))
             => frames'[f] = frames[f]]_vars

\* A request of a client that could refresh has failed with 403, and no
\* exchange was started
C17_Witness ==
    \E t \in TopFrames :
        /\ frames[t].pc = "failed" /\ frames[t].err = HttpError(403)
        /\ frames[t].o.useRefreshToken
        /\ state = FullSession /\ storage.session.tokenResponse = state.tokenResponse
        /\ exchs = <<>> /\ Len(frames) = 1

\* C18: the slot holds the exchange that is in flight and nothing else: it
\* is set while an exchange is in flight and empty when none is, so at most
\* one is in flight; whoever has seen an exchange settle finds the slot no
\* longer holding it; and a refresh() that passes the checks with the slot
\* empty starts a new exchange and gets the new future
C18_SlotLifetime ==
    /\ [](/\ InFlight = (IF refreshTask = 0 THEN {} ELSE {refreshTask})
          /\ \A k \in Joined :
                callers[k].st \in {"ok", "failed"}
                => callers[k].fut \notin InFlight /\ callers[k].fut # refreshTask
          /\ \A f \in 1..Len(frames) :
                (frames[f].fut # 0 /\ frames[f].pc # "refreshWait")
                => frames[f].fut \notin InFlight /\ frames[f].fut # refreshTask)
    /\ [][(/\ Len(callers') = Len(callers) + 1
           /\ RefreshPrecondition = "ok"
           /\ InFlight = {})
          => /\ Len(exchs') = Len(exchs) + 1
             /\ exchs'[Len(exchs')].st = "flight"
             /\ refreshTask' = Len(exchs')
             /\ callers'[Len(callers')].fut = Len(exchs')]_vars

\* A caller has seen the first exchange succeed, and a refresh() made after
\* that is waiting for a second exchange
C18_Witness ==
    \E j, k \in Joined :
        /\ callers[j].fut = 1 /\ callers[j].st = "ok"
        /\ callers[k].fut = 2 /\ callers[k].st = "wait"
        /\ refreshTask = 2 /\ InFlight = {2}

\* What the session lacks for a refresh
Missing ==
    (IF state.tokenResponse.refresh_token = 0 THEN {1} ELSE {})
    \cup (IF state.tokenUri THEN {} ELSE {2})
    \cup (IF state.tokenResponse.scope \cap {"offline_access", "online_access"} = {}
          THEN {3} ELSE {})

MissingError(n) ==
    Error(CASE n = 1 -> "noRefreshToken" [] n = 2 -> "noTokenUri" [] OTHER -> "noScope")

\* C19: refresh() on a session that lacks the refresh token, tokenUri or the
\* offline_access / online_access scope throws at once the error of the
\* first thing that is missing, in that order, each its own error; no
\* exchange is started and state, storage and slot stay as they are
C19_Preconditions ==
    [][(Len(callers') = Len(callers) + 1 /\ Missing # {})
       => /\ callers'[Len(callers')].st = "threw"
          /\ callers'[Len(callers')].fut = 0
          /\ callers'[Len(callers')].err =
                MissingError(CHOOSE n \in Missing : \A m \in Missing : n <= m)
          /\ \A n, m \in {1, 2, 3} : MissingError(n) = MissingError(m) => n = m
          /\ UNCHANGED <<state, storage, exchs, refreshTask>>]_vars

\* refresh() has thrown "no tokenUri" on a session that has a refresh token
\* and lacks both tokenUri and the scope
C19_Witness ==
    \E k \in 1..Len(callers) :
        /\ callers[k].st = "threw"
        /\ callers[k].err = Error("noTokenUri")
        /\ Missing = {2, 3}
        /\ exchs = <<>> /\ refreshTask = 0

\* The depths of the configured paths of invocation f, and the groups that
\* entry e has entered and left
Depths(f) ==
    LET paths == SanitizePaths(frames[f].o.resolveReferences)
    IN  {Len(paths[i]) : i \in 1..Len(paths)}

EnteredGroups(f, e) ==
    LET keys == GroupKeys(SanitizePaths(frames[f].o.resolveReferences))
    IN  {keys[i] : i \in 1..frames[f].tasks[e].g}

LeftGroups(f, e) ==
    LET keys == GroupKeys(SanitizePaths(frames[f].o.resolveReferences))
    IN  IF frames[f].tasks[e].st = "done" THEN Depths(f)
        ELSE {keys[i] : i \in 1..(frames[f].tasks[e].g - 1)}

\* C20 as stated: the depth groups of a resource are worked in ascending
\* numeric order, one after the other: the group of depth d2 is entered only
\* when every group of a smaller depth d1 is finished (for instance 2 and
\* 10); and no fetch of a group settles while lookups of the group are still
\* to be made
C20_AscendingDepth ==
    /\ [](\A f \in 1..Len(frames) : \A e \in 1..Len(frames[f].tasks) :
             \A d1, d2 \in Depths(f) :
                (d1 < d2 /\ d2 \in EnteredGroups(f, e)) => d1 \in LeftGroups(f, e))
    /\ [][\A f \in 1..Len(frames) :
            (frames[f].kind = "ref" /\ frames[f].pc = "fetch" /\ frames'[f].pc # "fetch")
            => \A i \in 1..Len(run) : run[i].op # "lookup"]_vars

\* The fetches of id made for cache c, and those not yet settled
CacheFetches(c, id) ==
    {f \in 1..Len(frames) :
        /\ frames[f].kind = "ref" /\ frames[f].url = id
        /\ frames[frames[f].parent].c = c}

Outstanding(c, id) == {f \in CacheFetches(c, id) : ~Settled(frames[f])}

\* The settled fetches whose reaction in getRef has not run yet
Unseen(c, id) ==
    {f \in CacheFetches(c, id) :
        \E i \in 1..Len(run) : run[i].op = "settled" /\ run[i].f = f}

\* C21: per cache and reference id at most one fetch is outstanding; while
\* it is, the cache holds its placeholder and everyone who looked the id up
\* waits for that fetch; when it has succeeded the cache holds its value,
\* when it has failed the cache holds nothing; and a lookup of an id the
\* cache does not hold starts a fetch and stores its placeholder in the
\* same step
C21_OneOutstandingFetch ==
    /\ [](\A c \in 1..MaxFrames, id \in RefIds :
             /\ Cardinality(Outstanding(c, id) \cup Unseen(c, id)) <= 1
             /\ \A f \in Outstanding(c, id) \cup Unseen(c, id) :
                   caches[c][id] = [t |-> "pending", f |-> f]
             /\ caches[c][id].t = "pending"
                => caches[c][id].f \in Outstanding(c, id) \cup Unseen(c, id)
             /\ caches[c][id].t = "val"
                => /\ caches[c][id].f \in CacheFetches(c, id)
                   /\ frames[caches[c][id].f].pc = "done"
             /\ \A f \in 1..Len(frames) : \A k \in 1..Len(frames[f].wait) :
                   (frames[f].c = c /\ frames[f].wait[k].id = id)
                   => caches[c][id].t = "pending")
    /\ [][\A c \in 1..MaxFrames, id \in RefIds :
            /\ (caches[c][id].t = "absent" /\ caches'[c][id].t # "absent")
               => /\ Len(frames') = Len(frames) + 1
                  /\ caches'[c][id] = [t |-> "pending", f |-> Len(frames')]
                  /\ Len(frames') \in Outstanding(c, id)'
            /\ (caches[c][id].t = "pending" /\ caches'[c][id].t # "pending")
               => caches'[c][id] =
                     IF frames[caches[c][id].f].pc = "done"
                     THEN [t |-> "val", f |-> caches[c][id].f]
                     ELSE [t |-> "absent", f |-> 0]]_vars

\* Two lookups of P1 wait for one fetch, in a cache that has already lost
\* the placeholder of a failed fetch of P2
C21_Witness ==
    \E f \in 1..Len(frames) :
        /\ Cardinality({k \in 1..Len(frames[f].wait) : frames[f].wait[k].id = "P1"}) = 2
        /\ Cardinality(CacheFetches(frames[f].c, "P1")) = 1
        /\ caches[frames[f].c]["P1"].t = "pending"
        /\ caches[frames[f].c]["P2"].t = "absent"
        /\ \E g \in CacheFetches(frames[f].c, "P2") : frames[g].pc = "failed"

\* C22 as stated: a request whose refresh exchange failed, whatever the
\* cause, fails with "session expired", and at that moment tokenResponse is
\* empty and the stored session is removed
C22_ExpiredAfterFailedRefresh ==
    [][\A f \in 1..Len(frames) :
          (/\ ~Settled(frames[f]) /\ Settled(frames'[f])
           /\ frames[f].fut # 0 /\ exchs[frames[f].fut].st = "failed")
          => /\ frames'[f].err = Error("expired")
             /\ state'.tokenResponse = NoTokens
             /\ ~storage'.session.present]_vars

\* First attempts that were answered 401 and went to refresh()
Refreshed == {f \in 1..Len(frames) : frames[f].kind = "top" /\ frames[f].fut # 0}

\* C23 as stated: requests that went out with the same access token and were
\* each answered 401 are served by one token exchange, whenever their 401s
\* arrive
C23_OneExchangePerGroup ==
    \A f, g \in Refreshed :
        frames[f].auth = frames[g].auth => frames[f].fut = frames[g].fut

\* C23, amended: a 401 that arrives while an exchange is in flight joins it
\* and starts none; a 401 that arrives when none is in flight starts one, so
\* two requests of the group are served by different exchanges only if the
\* first exchange had settled when the second 401 arrived
C23_OneExchangeWhileInFlight ==
    /\ [][\A f \in 1..Len(frames) :
            (frames[f].pc = "fetch" /\ frames'[f].pc = "refreshWait")
            => IF InFlight # {}
               THEN exchs' = exchs /\ frames'[f].fut \in InFlight
               ELSE InFlight' = {frames'[f].fut} /\ Len(exchs') = Len(exchs) + 1]_vars
    /\ [](\A f, g \in Refreshed :
             frames[f].fut < frames[g].fut => exchs[frames[f].fut].st # "flight")

\* Two requests went out with the first access token; the 401 of the second
\* arrived after the exchange of the first had succeeded and started a
\* second exchange
C23_Witness ==
    \E f, g \in Refreshed :
        /\ frames[f].auth = frames[g].auth
        /\ frames[f].fut = 1 /\ frames[g].fut = 2
        /\ exchs[1].st = "ok"

\* Requests of a Bundle with pageLimit = 0
Unlimited == {t \in TopFrames : Options(frames[t].fo).pageLimit = 0
                                /\ DB(frames[t].url).t = "bundle"}

\* C24: with pageLimit = 0 the budget is negative after every decrement (an
\* attempt that handed over to its retry makes none), so
\* every page that has a next link is followed by the fetch of the next
\* page: a chain of L pages is fetched in L page fetches, and a chain that
\* comes back to itself never lets the request succeed
C24_NoPageLimit ==
    \A t \in Unlimited :
        /\ \A f \in PageFetches(t) :
              /\ frames[f].o.pageLimit <= 0
              /\ (frames[f].pc \in {"nextWait", "done"} /\ frames[f].fut = 0)
                 => frames[f].o.pageLimit < 0
              /\ (frames[f].pc = "done" /\ frames[f].next # "")
                 => \E g \in PageFetches(t) :
                       /\ frames[g].kind = "page" /\ frames[g].url = frames[f].next
                       /\ frames[g].pc = "done"
        /\ IF Cyclic(frames[t].url) THEN frames[t].pc # "done"
           ELSE /\ Cardinality(PageFetches(t)) <= ChainLen(frames[t].url)
                /\ frames[t].pc = "done"
                   => Cardinality(PageFetches(t)) = ChainLen(frames[t].url)

\* pageLimit 0 on the chain B1 -> B2 -> B3: all three pages were fetched
C24_Witness ==
    \E t \in Unlimited :
        /\ frames[t].url = "B1" /\ frames[t].pc = "done"
        /\ Cardinality(PageFetches(t)) = 3
        /\ \E f \in PageFetches(t) : frames[f].url = "B3" /\ frames[f].o.pageLimit = 0 - 3

\* C25: when the token endpoint answers exchange x with an access token,
\* tokenResponse takes the fields of the response (the access token, and the
\* refresh token if one came) and keeps the rest (the old refresh token if
\* none came, the scope); an answer without access token fails the refresh
\* and leaves the access token and the scope as they were
C25_MergedFields ==
    [][\A x \in 1..Len(exchs) :
          LET old == state.tokenResponse
              new == state'.tokenResponse
          IN  /\ TokenRespond(x, "ok")
                 => exchs'[x].st = "ok" /\ new = [old EXCEPT !.access_token = x + 1]
              /\ TokenRespond(x, "okRotate")
                 => /\ exchs'[x].st = "ok"
                    /\ new = [old EXCEPT !.access_token = x + 1,
                                          !.refresh_token = x + 1]
              /\ TokenRespond(x, "noAccessToken")
                 => /\ exchs'[x].st = "failed"
                    /\ new.access_token = old.access_token
                    /\ new.scope = old.scope
                    /\ new.refresh_token \in {old.refresh_token, 0}]_vars

\* An exchange has delivered a new access token and a new refresh token; the
\* scope is the one the session had
C25_Witness ==
    /\ Len(exchs) = 1 /\ exchs[1].st = "ok" /\ exchs[1].rt = 1
    /\ state.tokenResponse =
          [access_token |-> 2, refresh_token |-> 2, scope |-> {"launch", "offline_access"}]

Clearing == {f \in 1..Len(frames) :
                frames[f].pc \in {"clearGet", "clearUnsetKey", "clearUnsetSmart"}}

\* C26: the session state changes only in the step that settles a token
\* exchange and in the last step of _clearState, and there only in
\* tokenResponse; tokenUri, key and the credentials never change.  No
\* exchange and no _clearState is under way, and the state is the initial
\* one, as long as no attempt was answered 401, whatever reference and page
\* fetches were made
C26_StateFrame ==
    /\ [][/\ state' # state
             => \/ \E x \in InFlight : exchs'[x].st # "flight"
                \/ \E f \in Clearing : frames'[f].pc = "failed"
          /\ [state' EXCEPT !.tokenResponse = NoTokens]
                = [state EXCEPT !.tokenResponse = NoTokens]]_vars
    /\ [](n401 = 0 => state = FullSession /\ exchs = <<>> /\ Clearing = {})

\* A request of a Bundle with reference paths has fetched two pages and a
\* reference, failed on the next one, and the session is as it was
C26_Witness ==
    /\ n401 = 0 /\ state = FullSession
    /\ \E f, g, h \in 1..Len(frames) :
          /\ frames[f].kind = "page" /\ frames[f].pc = "done"
          /\ frames[g].kind = "ref" /\ frames[g].pc = "done"
          /\ frames[h].kind = "ref" /\ frames[h].pc = "failed"
    /\ \A t \in TopFrames : Settled(frames[t])

\* Position of the first and of the last occurrence of p in list
FirstAt(list, p) == CHOOSE i \in 1..Len(list) : list[i] = p /\ \A j \in 1..(i - 1) : list[j] # p
LastAt(list, p) ==
    CHOOSE i \in 1..Len(list) : list[i] = p /\ \A j \in (i + 1)..Len(list) : list[j] # p

\* The invocations that have sanitized their paths
Sanitized == {f \in 1..Len(frames) : \E e \in 1..Len(frames[f].tasks) : frames[f].tasks[e].g > 0}

\* out holds every path of the list once, none that is empty or has blanks
\* around it
DistinctPaths(out, raw) ==
    /\ {out[i] : i \in 1..Len(out)}
          = {Trim(raw[i]) : i \in 1..Len(raw)} \ {<<>>}
    /\ \A i, j \in 1..Len(out) : out[i] = out[j] => i = j

\* C27 as stated: the sanitized list holds each distinct non-empty trimmed
\* path once, in the order of the first occurrences
C27_FirstOccurrence ==
    \A f \in Sanitized :
        LET raw == frames[f].o.resolveReferences
            out == SanitizePaths(raw)
        IN  /\ DistinctPaths(out, raw)
            /\ \A i, j \in 1..Len(out) :
                  i < j => FirstAt(CleanPaths(raw), out[i]) < FirstAt(CleanPaths(raw), out[j])

\* C27, amended: the sanitized list holds each distinct non-empty trimmed
\* path once, in the order of the last occurrences
C27_LastOccurrence ==
    \A f \in Sanitized :
        LET raw == frames[f].o.resolveReferences
            out == SanitizePaths(raw)
        IN  /\ DistinctPaths(out, raw)
            /\ \A i, j \in 1..Len(out) :
                  i < j => LastAt(CleanPaths(raw), out[i]) < LastAt(CleanPaths(raw), out[j])

\* The list [" a", "", " ", "b", "a "] was sanitized to [b, a]
C27_Witness ==
    \E f \in Sanitized :
        /\ frames[f].o.resolveReferences = <<<<" ", "a">>, <<>>, <<" ">>, pB, <<"a", " ">>>>
        /\ SanitizePaths(frames[f].o.resolveReferences) = <<pB, pA>>

\* C28 as stated: a request of one resource with graph = true whose fetches
\* were all answered succeeds, also when a deeper path comes upon a
\* reference that a shallower path has already resolved: the id is fetched
\* once and the cached resource is spliced in at the deeper place as well
C28_DeeperLookupFromCache ==
    \A t \in TopFrames :
        (/\ Settled(frames[t]) /\ frames[t].o.graph /\ DB(frames[t].url).t = "res"
         /\ n401 = 0
         /\ \A f \in 1..Len(frames) : frames[f].err.kind # "http")
        => /\ frames[t].pc = "done"
           /\ \A id \in RefIds : Cardinality(RefFetches(t, id)) <= 1
           /\ ExactLocations(t, frames[t].data)

\* The requests that held the future of exchange x
Holders(x) == {f \in 1..Len(frames) : frames[f].fut = x}

\* C29: a request whose own signal was never triggered (or that carries
\* none) does not fail with the rejection of an aborted call, and the token
\* exchange it waited for is not aborted, so the session does not lose its
\* refresh token on its account, even when the exchange is shared with a
\* request that cancelled its own signal
C29_CancellationIsolated ==
    \A f \in 1..Len(frames) :
        ~Aborted(frames[f].sig) =>
            /\ frames[f].err # AbortError
            /\ frames[f].fut # 0 => exchs[frames[f].fut].err # AbortError

\* A request has cleared the session after a terminal 401
Cleared == \E f \in 1..Len(frames) : frames[f].err = Error("expired")

\* C30: once a request has cleared the session, no step puts an access token
\* or a refresh token into tokenResponse or writes the session to storage,
\* whatever the requests and token exchanges that were in flight do
C30_StaysCleared ==
    [][Cleared =>
          /\ state'.tokenResponse.access_token = 0
          /\ state'.tokenResponse.refresh_token = 0
          /\ storage'.session.present => storage'.session = storage.session]_vars

\* The invocations of request t that handle a page, and those of them that
\* got the page from the transport
PageFrames(t) ==
    {f \in 1..Len(frames) :
        frames[f].top = t /\ frames[f].kind \in {"top", "page", "retry"}}
FetchedPages(t) == {f \in PageFrames(t) : frames[f].fut = 0 /\ frames[f].tasks # <<>>}

\* The invocations of the callback made for request t
OnPageCalls(t) ==
    {<<f, i>> \in PageFrames(t) \X (1..MaxFrames) : i <= Len(frames[f].calls)}

\* The invocation f and the invocations it descends from
RECURSIVE Chain(_)
Chain(f) == IF f = 0 THEN {} ELSE {f} \cup Chain(frames[f].parent)

\* C31: with onPage and a page budget other than 1 the callback is invoked
\* once per fetched page (never more, and exactly once for each page when
\* the request succeeds), the request of page k+1 exists only when the
\* callback of page k has returned, and the map passed with page k holds
\* nothing but resolved values fetched for the pages up to k
C31_OnPageOncePerPage ==
    \A t \in TopFrames :
        (/\ frames[t].o.onPage /\ DB(frames[t].url).t = "bundle"
         /\ Options(frames[t].fo).pageLimit # 1)
        => /\ Cardinality(OnPageCalls(t)) <= Cardinality(FetchedPages(t))
           /\ frames[t].pc = "done" =>
                 Cardinality(OnPageCalls(t)) = Cardinality(FetchedPages(t))
           /\ \A f \in PageFrames(t) :
                 /\ frames[f].kind = "page" =>
                       /\ frames[frames[f].parent].pc # "onPage"
                       /\ frames[frames[f].parent].calls # <<>>
                 /\ \A i \in 1..Len(frames[f].calls), id \in RefIds :
                       LET e == frames[f].calls[i].references[id]
                       IN  e.t # "absent" =>
                              /\ e.t = "val"
                              /\ frames[e.f].parent \in Chain(f)

====
